---------------------------- MODULE Spec2Model ----------------------------
(***************************************************************************)
(* A model of pacaptr's command execution engine (src/src/exec.rs):        *)
(* the command value `Cmd`, its rendering and its spawn specification, the *)
(* tee loop `exec_tee!`, the process sessions `exec_checkall` and          *)
(* `exec_checkerr`, the confirmation gate `exec_prompt` with its           *)
(* process-wide `ALL_YES` mutex, and the mode dispatcher `Cmd::exec`.      *)
(*                                                                         *)
(* Strings are sequences of one-character strings, so that rendering,      *)
(* lower-casing and line-end stripping are computed as the code computes   *)
(* them.  Bytes of a child's output are naturals: the k-th byte a child    *)
(* writes to its stdout is k, the k-th byte it writes to stderr is         *)
(* ErrBase + k.                                                            *)
(***************************************************************************)
EXTENDS Integers, Sequences, FiniteSets, TLC

(***************************************************************************)
(* Bounds of the model.                                                    *)
(***************************************************************************)
\* number of calls of Cmd::exec made in one run of the process
NCalls == 2
\* total number of bytes the children of one run write to their outputs
MaxBytes == 3
\* capacity, in bytes, of an OS pipe between a child and the host
PipeCap == 1
\* number of questions one confirmation prompt prints before the model stops
\* feeding it unrecognised lines
MaxPrompts == 2
\* longest program_tokens / keywords / option_flags of the command values
\* the rendering and build functions are applied to
MaxTok == 2

\* the first stderr byte is ErrBase + 1, above every stdout byte
ErrBase == MaxBytes

Calls == 1..NCalls

(***************************************************************************)
(* Strings.                                                                *)
(***************************************************************************)
\* str::to_lowercase on the characters the inputs are made of
LowerChar(ch) ==
    CASE ch = "Y" -> "y"
      [] ch = "E" -> "e"
      [] ch = "S" -> "s"
      [] ch = "A" -> "a"
      [] ch = "L" -> "l"
      [] ch = "N" -> "n"
      [] ch = "O" -> "o"
      [] OTHER -> ch

to_lowercase(s) == [i \in 1..Len(s) |-> LowerChar(s[i])]

\* String::pop when the last character is `ch` (exec.rs, prompt)
PopIfLast(s, ch) ==
    IF Len(s) > 0 /\ s[Len(s)] = ch THEN SubSeq(s, 1, Len(s) - 1) ELSE s

\* [&str]::join(" ")
RECURSIVE join(_)
join(toks) ==
    IF Len(toks) = 0 THEN << >>
    ELSE IF Len(toks) = 1 THEN toks[1]
    ELSE toks[1] \o <<" ">> \o join(Tail(toks))

IsPrefix(p, s) == Len(p) <= Len(s) /\ SubSeq(s, 1, Len(p)) = p

\* the tokens command values are made of
SUDO == <<"s", "u", "d", "o">>
DASH_S == <<"-", "S">>
APT == <<"a", "p", "t">>
PKG == <<"f", "i", "s", "h">>
DASH_Y == <<"-", "y">>

\* "sudo -S ", the prefix Display writes when the command needs sudo
SudoPrefix == <<"s", "u", "d", "o", " ", "-", "S", " ">>

(***************************************************************************)
(* The command value.                                                      *)
(***************************************************************************)
Cmd(sudo, cmd, kws, flags) ==
    [sudo |-> sudo, cmd |-> cmd, kws |-> kws, flags |-> flags]

\* needs_sudo without the `!is_root()` conjunct
needs_sudo_no_root_check(self, is_root) == self.sudo

\* Cmd::needs_sudo: `self.sudo && !is_root()`
needs_sudo(self, is_root) == self.sudo /\ ~is_root

\* impl Display for Cmd
Display(self, is_root) ==
    LET sudo_prefix == IF needs_sudo(self, is_root) THEN SudoPrefix ELSE << >>
        cmd_str == join(self.cmd \o self.kws \o self.flags)
    IN  sudo_prefix \o cmd_str

\* a build that appends the arguments in the order of Display: keywords,
\* then flags
build_kws_first(self, is_root) ==
    IF needs_sudo(self, is_root)
    THEN [kind |-> "Exec", program |-> SUDO,
          args |-> <<DASH_S>> \o self.cmd \o self.kws \o self.flags]
    ELSE IF Len(self.cmd) = 0
         THEN [kind |-> "Panic", program |-> << >>, args |-> << >>]
         ELSE [kind |-> "Exec", program |-> Head(self.cmd),
               args |-> Tail(self.cmd) \o self.kws \o self.flags]

\* Cmd::build: the program and the arguments of the process to spawn, or
\* the panic of `expect("Failed to build Cmd, command is empty")`
build(self, is_root) ==
    IF needs_sudo(self, is_root)
    THEN [kind |-> "Exec", program |-> SUDO,
          args |-> <<DASH_S>> \o self.cmd \o self.flags \o self.kws]
    ELSE IF Len(self.cmd) = 0
         THEN [kind |-> "Panic", program |-> << >>, args |-> << >>]
         ELSE [kind |-> "Exec", program |-> Head(self.cmd),
               args |-> Tail(self.cmd) \o self.flags \o self.kws]


\* the command values the calls of a run are made with
SessionCmds ==
    { Cmd(FALSE, <<APT>>, <<PKG>>, <<DASH_Y>>),
      Cmd(TRUE, <<APT>>, <<PKG>>, << >>),
      Cmd(FALSE, << >>, <<PKG>>, << >>),
      Cmd(TRUE, << >>, << >>, << >>) }

\* Cmd::default(), which also stands for a command value that was moved
NoCmd == Cmd(FALSE, << >>, << >>, << >>)

(***************************************************************************)
(* Execution outcomes.                                                     *)
(***************************************************************************)
Some(n) == [some |-> TRUE, v |-> n]
None == [some |-> FALSE, v |-> 0]

\* struct Output
Output(contents, code) == [contents |-> contents, code |-> code]

\* impl Default for Output
OutputDefault == Output(<< >>, Some(0))

\* Result<Output>: Ok(output), Err(error), or the unwinding of a panic;
\* "None" while the call has not returned
NoResult == [kind |-> "None", out |-> OutputDefault, err |-> ""]
Ok(o) == [kind |-> "Ok", out |-> o, err |-> ""]
Err(e) == [kind |-> "Err", out |-> OutputDefault, err |-> e]
Panicked(e) == [kind |-> "Panic", out |-> OutputDefault, err |-> e]

\* the exit codes a child of the model ends with
ExitCodes == {0, 1}

\* a child process: st is "none", "running" or "exited"; nOut and nErr count
\* the bytes it has written to stdout and stderr; blocked is the descriptor
\* (1 stdout, 2 stderr) of the write(2) it is blocked in, 0 when it is not;
\* status is ExitStatus::code()
NoChild ==
    [st |-> "none", nOut |-> 0, nErr |-> 0, blocked |-> 0, status |-> None,
     prompted |-> FALSE]
NoBuild == [kind |-> "None", program |-> << >>, args |-> << >>]
NoAnswer == <<"none">>

\* the local `proceed` of exec_prompt: not yet bound, or bound to a bool
Undecided == << >>
Decided(v) == <<v>>

\* JoinHandle<Result<Option<i32>>> of the task that awaits child.wait()
NoTask == [st |-> "none", v |-> None]

VARIABLES
    root,        \* is_root(): whether the process is privileged
    cmd,         \* cmd[c]: the command value `self` of call c
    mode,        \* mode[c]: the Mode call c was made with
    pc,          \* pc[c]: where call c is
    all_yes,     \* the bool inside the ALL_YES mutex
    lockHolder,  \* the call holding the ALL_YES mutex guard, 0 when free
    proceed,     \* proceed[c]: the local `proceed` of exec_prompt
    input,       \* input[c]: the line read_line last read for call c
    answer,      \* answer[c]: the answer prompt() returned to call c
    prompts,     \* prompts[c]: questions the running prompt() has printed
    reads,       \* reads[c]: lines the running prompt() has read
    shown,       \* shown[c]: the rendering of cmd[c] by Display
    built,       \* built[c]: what Cmd::build made of cmd[c]
    spawns,      \* spawns[c]: calls of Command::spawn made for call c
    mute,        \* mute[c]: the `mute` argument of the session
    both,        \* both[c]: stdout is piped as well (exec_checkall)
    child,       \* child[c]: the child process
    pipeOut,     \* pipeOut[c]: bytes in the child's stdout pipe
    pipeErr,     \* pipeErr[c]: bytes in the child's stderr pipe
    b,           \* b[c]: the chunk the tee loop is writing
    out,         \* out[c]: the capture sink `out`
    live,        \* live[c]: what the tee wrote to the live sink
    code,        \* code[c]: the task awaiting child.wait()
    result       \* result[c]: what the call returned

envVars == <<root, shown, built>>
gateVars == <<all_yes, proceed, input, answer, prompts, reads>>
sessVars == <<spawns, mute, both, child, code>>
teeVars == <<pipeOut, pipeErr, b, out, live>>
vars == <<root, cmd, mode, pc, all_yes, lockHolder, proceed, input, answer,
          prompts, reads, shown, built, spawns, mute, both, child, pipeOut,
          pipeErr, b, out, live, code, result>>

Modes == {"PrintCmd", "Mute", "CheckAll", "CheckErr", "Prompt"}

InitCalls ==
    /\ mode = [c \in Calls |-> "None"]
    /\ pc = [c \in Calls |-> "idle"]
    /\ all_yes = FALSE
    /\ lockHolder = 0
    /\ proceed = [c \in Calls |-> Undecided]
    /\ input = [c \in Calls |-> NoAnswer]
    /\ answer = [c \in Calls |-> NoAnswer]
    /\ prompts = [c \in Calls |-> 0]
    /\ reads = [c \in Calls |-> 0]
    /\ shown = [c \in Calls |-> NoAnswer]
    /\ built = [c \in Calls |-> NoBuild]
    /\ spawns = [c \in Calls |-> 0]
    /\ mute = [c \in Calls |-> FALSE]
    /\ both = [c \in Calls |-> FALSE]
    /\ child = [c \in Calls |-> NoChild]
    /\ pipeOut = [c \in Calls |-> << >>]
    /\ pipeErr = [c \in Calls |-> << >>]
    /\ b = [c \in Calls |-> << >>]
    /\ out = [c \in Calls |-> << >>]
    /\ live = [c \in Calls |-> << >>]
    /\ code = [c \in Calls |-> NoTask]
    /\ result = [c \in Calls |-> NoResult]

\* the process starts with ALL_YES false and no call made
Init ==
    /\ root \in BOOLEAN
    /\ cmd = [c \in Calls |-> NoCmd]
    /\ InitCalls

(***************************************************************************)
(* Returning from a call, and starting a process session.                  *)
(***************************************************************************)
\* the errors of a call, by the context the code attaches to them
SpawnFailed == "Failed to spawn child process"
WaitFailed == "Child process encountered an error"
IoFailure == "io::Error"
BuildPanic == "Failed to build Cmd, command is empty"

\* a guard that outlives the call: the lock is never released
ReleasedNever(lk, c) == lk

\* dropping the MutexGuard `all_yes`, if the call holds it
Released(lk, c) == IF lk = c THEN 0 ELSE lk

\* call c returns r (or unwinds).  The locals of the call are dropped: the
\* guard, the pipe readers with what the pipes still hold, and the chunk
Return(c, r) ==
    /\ result' = [result EXCEPT ![c] = r]
    /\ pc' = [pc EXCEPT ![c] = "done"]
    /\ lockHolder' = Released(lockHolder, c)
    /\ pipeOut' = [pipeOut EXCEPT ![c] = << >>]
    /\ pipeErr' = [pipeErr EXCEPT ![c] = << >>]
    /\ b' = [b EXCEPT ![c] = << >>]

\* the bytes the children of the run have written or are blocked writing
RECURSIVE WrittenUpTo(_)
WrittenUpTo(n) ==
    IF n = 0 THEN 0
    ELSE child[n].nOut + child[n].nErr
         + (IF child[n].blocked = 0 THEN 0 ELSE 1) + WrittenUpTo(n - 1)

\* Command::spawn: the executable may or may not be launchable
SpawnOutcomes == {"spawned", "failed"}

\* `.spawn().unwrap()` in place of `.spawn().context(..)?`
OnSpawnErrorUnwrap == Panicked(SpawnFailed)

\* `.spawn().context("Failed to spawn child process")?`
OnSpawnError == Err(SpawnFailed)

\* exec_checkall (piped) and exec_checkerr (~piped) up to their first await:
\* build, which consumes the command value, spawn, take the pipe readers,
\* start the task that waits for the child, and enter the tee loop
StartSession(c, piped, mt) ==
    LET spec == build(cmd[c], root)
    IN  /\ cmd' = [cmd EXCEPT ![c] = NoCmd]
        /\ mute' = [mute EXCEPT ![c] = mt]
        /\ both' = [both EXCEPT ![c] = piped]
        /\ \/ /\ spec.kind = "Panic"
              /\ Return(c, Panicked(BuildPanic))
              /\ UNCHANGED <<spawns, child, code>>
           \/ /\ spec.kind = "Exec"
              /\ spawns' = [spawns EXCEPT ![c] = @ + 1]
              /\ \E o \in SpawnOutcomes :
                    \/ /\ o = "failed"
                       /\ Return(c, OnSpawnError)
                       /\ UNCHANGED <<child, code>>
                    \/ /\ o = "spawned"
                       /\ child' = [child EXCEPT
                                      ![c].st = "running",
                                      ![c].prompted = (mode[c] = "Prompt")]
                       /\ code' = [code EXCEPT ![c].st = "running"]
                       /\ pc' = [pc EXCEPT ![c] = "tee_read"]
                       /\ UNCHANGED <<result, lockHolder, pipeOut, pipeErr,
                                      b>>

(***************************************************************************)
(* Cmd::exec, the mode dispatcher.  print_cmd writes Display(self) to the  *)
(* console; the run keeps no record of the command lines it has printed.   *)
(***************************************************************************)
\* caller c has no call in flight and no child left from an earlier call
Free(c) == pc[c] = "idle" /\ child[c].st = "none"

\* Sessions share no state but ALL_YES, so the callers of the model make
\* the calls that do not go through the gate one at a time; calls in
\* Mode::Prompt are made while other calls in Mode::Prompt are in flight
\* and while children of earlier calls are still running.  The callers
\* being interchangeable, a call is made by the first free one
CanCall(c, m) ==
    /\ Free(c)
    /\ \A d \in Calls : d < c => ~Free(d)
    /\ \A d \in Calls \ {c} :
          \/ Free(d)
          \/ m = "Prompt" /\ (pc[d] = "idle" \/ mode[d] = "Prompt")

\* a caller calls `self.exec(m)`
Call(c, self, m) ==
    /\ CanCall(c, m)
    /\ cmd' = [cmd EXCEPT ![c] = self]
    /\ mode' = [mode EXCEPT ![c] = m]
    /\ pc' = [pc EXCEPT ![c] = "exec"]
    /\ UNCHANGED <<envVars, gateVars, lockHolder, sessVars, teeVars, result>>

\* Mode::PrintCmd falling through to the arm of Mode::CheckErr
ExecPrintCmdFallThrough(c) ==
    /\ pc[c] = "exec"
    /\ mode[c] = "PrintCmd"
    /\ StartSession(c, FALSE, FALSE)
    /\ UNCHANGED <<envVars, mode, gateVars, out, live>>

\* Mode::PrintCmd: print_cmd, Ok(Default::default())
ExecPrintCmd(c) ==
    /\ pc[c] = "exec"
    /\ mode[c] = "PrintCmd"
    /\ Return(c, Ok(OutputDefault))
    /\ UNCHANGED <<envVars, cmd, mode, gateVars, sessVars, out, live>>

\* Mode::Mute: exec_checkall(true)
ExecMute(c) ==
    /\ pc[c] = "exec"
    /\ mode[c] = "Mute"
    /\ StartSession(c, TRUE, TRUE)
    /\ UNCHANGED <<envVars, mode, gateVars, out, live>>

\* Mode::CheckAll: print_cmd, exec_checkall(false)
ExecCheckAll(c) ==
    /\ pc[c] = "exec"
    /\ mode[c] = "CheckAll"
    /\ StartSession(c, TRUE, FALSE)
    /\ UNCHANGED <<envVars, mode, gateVars, out, live>>

\* Mode::CheckErr calling exec_checkall(false)
ExecCheckErrAsCheckAll(c) ==
    /\ pc[c] = "exec"
    /\ mode[c] = "CheckErr"
    /\ StartSession(c, TRUE, FALSE)
    /\ UNCHANGED <<envVars, mode, gateVars, out, live>>

\* Mode::CheckErr: print_cmd, exec_checkerr(false)
ExecCheckErr(c) ==
    /\ pc[c] = "exec"
    /\ mode[c] = "CheckErr"
    /\ StartSession(c, FALSE, FALSE)
    /\ UNCHANGED <<envVars, mode, gateVars, out, live>>

\* Mode::Prompt: exec_prompt(false), suspended at ALL_YES.lock().await
ExecPrompt(c) ==
    /\ pc[c] = "exec"
    /\ mode[c] = "Prompt"
    /\ pc' = [pc EXCEPT ![c] = "lock"]
    /\ UNCHANGED <<envVars, cmd, mode, gateVars, lockHolder, sessVars,
                   teeVars, result>>

(***************************************************************************)
(* The confirmation gate: exec_prompt and prompt.                          *)
(***************************************************************************)
\* the lines standard input delivers to read_line, terminator included;
\* the empty line is end of input
Lines ==
    { << >>, <<"\n">>, <<"\r", "\n">>,
      <<"y", "\n">>, <<"Y", "\r", "\n">>, <<"y">>, <<"Y", "E", "S", "\n">>,
      <<"a", "\n">>, <<"A", "l", "L", "\n">>,
      <<"n", "\n">>, <<"N", "o", "\r", "\n">>,
      <<"x", "\n">>, <<"y", "\n", "\r">>, <<"n", "o", "n", "\n">> }

\* an `expected` argument without the empty answer
GateExpectedNoEmpty ==
    << <<"y">>, <<"y", "e", "s">>, <<"a">>, <<"a", "l", "l">>,
       <<"n">>, <<"n", "o">> >>

\* the `expected` argument exec_prompt passes to prompt
GateExpected ==
    << << >>, <<"y">>, <<"y", "e", "s">>, <<"a">>, <<"a", "l", "l">>,
       <<"n">>, <<"n", "o">> >>

\* an iteration of prompt's loop that never lower-cases the line
ReadAnswerCaseSensitive(line, case_sensitive) ==
    PopIfLast(PopIfLast(line, "\n"), "\r")

\* one iteration of prompt's loop on the line read: lower-case it unless
\* case_sensitive, pop a trailing '\n', then a trailing '\r'
ReadAnswer(line, case_sensitive) ==
    LET a == IF ~case_sensitive THEN to_lowercase(line) ELSE line
    IN  PopIfLast(PopIfLast(a, "\n"), "\r")

\* `expected.iter().any(|&x| x == answer)`
Accepted(ans, expected) == \E i \in 1..Len(expected) : expected[i] = ans

\* the arms of the match in exec_prompt
IsYes(ans) == ans \in { << >>, <<"y">>, <<"y", "e", "s">> }
IsAll(ans) == ans \in { <<"a">>, <<"a", "l", "l">> }
IsNo(ans) == ans \in { <<"n">>, <<"n", "o">> }

\* a lock that never waits
CanLockAlways(c) == TRUE

\* tokio Mutex::lock resolves only while no guard is alive
CanLock(c) == lockHolder = 0

\* a gate that asks whatever *all_yes is
SkipGateNever(ay) == FALSE

\* `if *all_yes { true }`: the gate is skipped
SkipGate(ay) == ay

\* `*all_yes = true` also in the "y" | "yes" | "" arm
AllYesAfterAnyYes(ay, ans) == IF IsAll(ans) \/ IsYes(ans) THEN TRUE ELSE ay

\* the value of *all_yes after the match arm for `ans`: only the
\* "a" | "all" arm assigns it
AllYesAfter(ay, ans) == IF IsAll(ans) THEN TRUE ELSE ay

\* a "n" | "no" arm that yields true
ProceedOnAlways(ans) == TRUE

\* the value of `proceed` the match arm for `ans` yields
ProceedOn(ans) == ~IsNo(ans)

\* exec_prompt acquires ALL_YES: with all_yes set `proceed` is true at once,
\* otherwise it prints the pending command and prompt prints its first
\* question and blocks in read_line
Lock(c) ==
    /\ pc[c] = "lock"
    /\ CanLock(c)
    /\ lockHolder' = c
    /\ IF SkipGate(all_yes)
       THEN /\ proceed' = [proceed EXCEPT ![c] = Decided(TRUE)]
            /\ pc' = [pc EXCEPT ![c] = "run"]
            /\ UNCHANGED prompts
       ELSE /\ prompts' = [prompts EXCEPT ![c] = @ + 1]
            /\ pc' = [pc EXCEPT ![c] = "prompt"]
            /\ UNCHANGED proceed
    /\ UNCHANGED <<envVars, cmd, mode, all_yes, input, answer, reads,
                   sessVars, teeVars, result>>

\* read_line returns `line`: prompt either loops, printing the question
\* again, or returns the answer, on which exec_prompt sets `proceed` and,
\* for "a" and "all", all_yes
Answer(c, line) ==
    /\ pc[c] = "prompt"
    /\ reads' = [reads EXCEPT ![c] = @ + 1]
    /\ input' = [input EXCEPT ![c] = line]
    /\ LET ans == ReadAnswer(line, FALSE)
       IN  IF ~Accepted(ans, GateExpected)
           THEN /\ prompts[c] < MaxPrompts
                /\ prompts' = [prompts EXCEPT ![c] = @ + 1]
                /\ UNCHANGED <<all_yes, proceed, answer, pc>>
           ELSE LET low == to_lowercase(ans)
                IN  /\ answer' = [answer EXCEPT ![c] = low]
                    /\ all_yes' = AllYesAfter(all_yes, low)
                    /\ proceed' =
                          [proceed EXCEPT ![c] = Decided(ProceedOn(low))]
                    /\ pc' = [pc EXCEPT ![c] = "run"]
                    /\ UNCHANGED prompts
    /\ UNCHANGED <<envVars, cmd, mode, lockHolder, sessVars, teeVars, result>>

\* the rest of exec_prompt, which follows the match without a suspension:
\* `if !proceed { return Ok(Default::default()) }`, print_cmd,
\* exec_checkerr(mute).  The session keeps nothing of what prompt read
Run(c) ==
    /\ pc[c] = "run"
    /\ IF proceed[c] = Decided(TRUE)
       THEN /\ StartSession(c, FALSE, FALSE)
            /\ input' = [input EXCEPT ![c] = NoAnswer]
            /\ answer' = [answer EXCEPT ![c] = NoAnswer]
            /\ prompts' = [prompts EXCEPT ![c] = 0]
            /\ reads' = [reads EXCEPT ![c] = 0]
       ELSE /\ Return(c, Ok(OutputDefault))
            /\ UNCHANGED <<cmd, sessVars, input, answer, prompts, reads>>
    /\ UNCHANGED <<envVars, mode, all_yes, proceed, out, live>>

(***************************************************************************)
(* The child process and its pipes.                                        *)
(***************************************************************************)
\* the host still holds the read ends of call c's pipes; what a child
\* writes after they are dropped reaches nothing of the model
ReaderOpen(c) == pc[c] \in {"tee_read", "tee_write", "join"}

\* descriptor fd of call c's child is a pipe to the host
Piped(c, fd) == fd = 2 \/ both[c]

Pipe(c, fd) == IF fd = 1 THEN pipeOut[c] ELSE pipeErr[c]

\* the next byte the child writes to fd
NextByte(c, fd) ==
    IF fd = 1 THEN child[c].nOut + 1 ELSE ErrBase + child[c].nErr + 1

\* a write(2) of one byte to the pipe fd would block: the pipe is full
WouldBlock(c, fd) == Len(Pipe(c, fd)) >= PipeCap

\* the byte reaches the pipe
Deliver(c, fd) ==
    LET byte == NextByte(c, fd)
    IN  /\ pipeOut' = IF fd = 1
                      THEN [pipeOut EXCEPT ![c] = Append(@, byte)] ELSE pipeOut
        /\ pipeErr' = IF fd = 2
                      THEN [pipeErr EXCEPT ![c] = Append(@, byte)] ELSE pipeErr

Counted(ch, fd) ==
    IF fd = 1 THEN [ch EXCEPT !.nOut = @ + 1, !.blocked = 0]
    ELSE [ch EXCEPT !.nErr = @ + 1, !.blocked = 0]

\* the child writes one byte to its stdout pipe (fd = 1) or its stderr pipe
\* (fd = 2), or blocks in the write when the pipe is full.  What it writes
\* to a descriptor it inherited goes to the console without passing
\* through the host, and is not part of the model
ChildWrite(c, fd) ==
    /\ child[c].st = "running"
    /\ ReaderOpen(c)
    /\ Piped(c, fd)
    /\ child[c].blocked = 0
    /\ WrittenUpTo(NCalls) < MaxBytes
    /\ IF WouldBlock(c, fd)
       THEN /\ child' = [child EXCEPT ![c].blocked = fd]
            /\ UNCHANGED <<pipeOut, pipeErr>>
       ELSE /\ child' = [child EXCEPT ![c] = Counted(@, fd)]
            /\ Deliver(c, fd)
    /\ UNCHANGED <<envVars, cmd, mode, gateVars, pc, lockHolder, spawns,
                   mute, both, code, b, out, live, result>>

\* a blocked write completes once the pipe has room
ChildResume(c) ==
    /\ child[c].st = "running"
    /\ ReaderOpen(c)
    /\ child[c].blocked # 0
    /\ ~WouldBlock(c, child[c].blocked)
    /\ child' = [child EXCEPT ![c] = Counted(@, child[c].blocked)]
    /\ Deliver(c, child[c].blocked)
    /\ UNCHANGED <<envVars, cmd, mode, gateVars, pc, lockHolder, spawns,
                   mute, both, code, b, out, live, result>>

\* the child exits with code ec, closing its ends of the pipes
ChildExit(c, ec) ==
    /\ child[c].st = "running"
    /\ child[c].blocked = 0
    /\ child' = [child EXCEPT ![c].st = "exited", ![c].status = Some(ec)]
    /\ UNCHANGED <<envVars, cmd, mode, gateVars, pc, lockHolder, spawns,
                   mute, both, code, teeVars, result>>

\* the child is killed by a signal: ExitStatus::code() is None
ChildKill(c) ==
    /\ child[c].st = "running"
    /\ child' = [child EXCEPT ![c].st = "exited", ![c].status = None,
                              ![c].blocked = 0]
    /\ UNCHANGED <<envVars, cmd, mode, gateVars, pc, lockHolder, spawns,
                   mute, both, code, teeVars, result>>

(***************************************************************************)
(* The tee loop exec_tee!, the wait task and the join.                     *)
(***************************************************************************)
\* a tee loop entered only after `code.await`: wait, then drain
DrainingAfterWait(c) == pc[c] = "tee_read" /\ code[c].st # "running"

\* a tee loop that polls its source while the writes of a chunk are pending
DrainingWhileWriting(c) == pc[c] \in {"tee_read", "tee_write"}

\* the tee loop polls its source as soon as the session is started, while
\* the wait task is still running
Draining(c) == pc[c] = "tee_read"

\* a tee that writes `$out1` whatever `$mute1` is
LiveAfterUnmuted(lv, chunk, mt) == lv \o chunk

\* what the live sink `$out1` holds after a chunk is written
LiveAfter(lv, chunk, mt) == IF mt THEN lv ELSE lv \o chunk

\* a capture that puts each chunk in front of the earlier ones
CaptureAfterPrepend(o, chunk, mt) == chunk \o o

\* a tee whose try_join! lacks the write to `$out2`
CaptureAfterMutedOnly(o, chunk, mt) == IF mt THEN o \o chunk ELSE o

\* what the capture sink `$out2` holds after a chunk is written
CaptureAfter(o, chunk, mt) == o \o chunk

\* `$src.next().await` yields a chunk: the bytes at the head of one of the
\* piped streams (the merge of both for exec_checkall); or it yields None,
\* when the child has closed its ends and nothing is left to read
TeeRead(c) ==
    /\ Draining(c)
    /\ \/ /\ \E fd \in {1, 2} :
                /\ Piped(c, fd)
                /\ Len(Pipe(c, fd)) > 0
                /\ \E k \in 1..Len(Pipe(c, fd)) :
                      /\ b' = [b EXCEPT ![c] = SubSeq(Pipe(c, fd), 1, k)]
                      /\ pipeOut' =
                            IF fd = 1
                            THEN [pipeOut EXCEPT
                                    ![c] = SubSeq(@, k + 1, Len(@))]
                            ELSE pipeOut
                      /\ pipeErr' =
                            IF fd = 2
                            THEN [pipeErr EXCEPT
                                    ![c] = SubSeq(@, k + 1, Len(@))]
                            ELSE pipeErr
          /\ pc' = [pc EXCEPT ![c] = "tee_write"]
       \/ /\ child[c].st = "exited"
          /\ pipeOut[c] = << >>
          /\ pipeErr[c] = << >>
          /\ pc' = [pc EXCEPT ![c] = "join"]
          /\ UNCHANGED <<pipeOut, pipeErr, b>>
    /\ UNCHANGED <<envVars, cmd, mode, gateVars, lockHolder, sessVars, out,
                   live, result>>

\* a tee loop that ends at a failed read and lets the session return what
\* it has captured
TeeReadFailPartial(c) ==
    /\ Draining(c)
    /\ Return(c, Ok(Output(out[c], None)))
    /\ UNCHANGED <<envVars, cmd, mode, gateVars, sessVars, out, live>>

\* `$src.next().await` yields an error: `mb?` returns it from the session
TeeReadFail(c) ==
    /\ Draining(c)
    /\ Return(c, Err(IoFailure))
    /\ UNCHANGED <<envVars, cmd, mode, gateVars, sessVars, out, live>>

\* the write of the chunk completes: on `$out2` alone when muted, on both
\* sinks (try_join!) otherwise
TeeWrite(c) ==
    /\ pc[c] = "tee_write"
    /\ out' = [out EXCEPT ![c] = CaptureAfter(@, b[c], mute[c])]
    /\ live' = [live EXCEPT ![c] = LiveAfter(@, b[c], mute[c])]
    /\ b' = [b EXCEPT ![c] = << >>]
    /\ pc' = [pc EXCEPT ![c] = "tee_read"]
    /\ UNCHANGED <<envVars, cmd, mode, gateVars, lockHolder, sessVars,
                   pipeOut, pipeErr, result>>

\* the write to the live sink fails after k bytes of the chunk: try_join!
\* returns the error, with the write to the Vec polled to completion (cap)
\* or never polled; `?` returns the error from the session
TeeWriteFail(c) ==
    /\ pc[c] = "tee_write"
    /\ ~mute[c]
    /\ \E k \in 0..(Len(b[c]) - 1), cap \in BOOLEAN :
          /\ live' = [live EXCEPT ![c] = @ \o SubSeq(b[c], 1, k)]
          /\ out' = [out EXCEPT ![c] = IF cap THEN @ \o b[c] ELSE @]
    /\ Return(c, Err(IoFailure))
    /\ UNCHANGED <<envVars, cmd, mode, gateVars, sessVars>>

\* the JoinHandle of call c's wait task has been dropped: the session
\* returned from the tee loop with an error
Detached(c) == pc[c] = "idle"

\* the wait task ends with outcome t: a task whose handle is still held
\* keeps the outcome for `code.await`; the outcome of a detached task is
\* dropped with the task, the child having been reaped
WaitDone(c, t) ==
    /\ code' = [code EXCEPT ![c] = IF Detached(c) THEN NoTask ELSE t]
    /\ child' = [child EXCEPT ![c] = IF Detached(c) THEN NoChild ELSE @]

\* the spawned task: child.wait() resolves with the exit status once the
\* child has ended
Wait(c) ==
    /\ code[c].st = "running"
    /\ child[c].st = "exited"
    /\ WaitDone(c, [st |-> "ok", v |-> child[c].status])
    /\ UNCHANGED <<envVars, cmd, mode, gateVars, pc, lockHolder, spawns,
                   mute, both, teeVars, result>>

\* child.wait() resolves with an error of the OS
WaitFail(c) ==
    /\ code[c].st = "running"
    /\ child[c].st = "exited"
    /\ WaitDone(c, [st |-> "failed", v |-> None])
    /\ UNCHANGED <<envVars, cmd, mode, gateVars, pc, lockHolder, spawns,
                   mute, both, teeVars, result>>

\* a join that reports a missing exit code as 0: `status.code().or(Some(0))`
JoinResultOrZero(c) ==
    IF code[c].st = "ok"
    THEN Ok(Output(out[c], IF code[c].v = None THEN Some(0) ELSE code[c].v))
    ELSE Err(WaitFailed)

\* `Ok(Output { contents, code: code.await.unwrap()? })`
JoinResult(c) ==
    IF code[c].st = "ok" THEN Ok(Output(out[c], code[c].v))
    ELSE Err(WaitFailed)

\* a session that builds its outcome without awaiting the wait task
JoinWithoutWait(c) ==
    /\ pc[c] = "join"
    /\ Return(c, Ok(Output(out[c], code[c].v)))
    /\ UNCHANGED <<envVars, cmd, mode, gateVars, sessVars, out, live>>

\* the session is suspended at `code.await` until the wait task is done
Join(c) ==
    /\ pc[c] = "join"
    /\ code[c].st \in {"ok", "failed"}
    /\ Return(c, JoinResult(c))
    /\ UNCHANGED <<envVars, cmd, mode, gateVars, sessVars, out, live>>

(***************************************************************************)
(* The caller.                                                             *)
(***************************************************************************)
\* call c has returned
Returned(c) == pc[c] = "done"

\* what is left of the child of a call that has returned: nothing once the
\* wait task is done; otherwise the process, running or ended, with its
\* blocked write failed by the closing of the pipe
Orphan(ch, task) ==
    IF task.st = "running"
    THEN [NoChild EXCEPT !.st = ch.st, !.status = ch.status,
                         !.prompted = ch.prompted]
    ELSE NoChild

\* the caller of call c takes the result and is ready for its next call;
\* what the process keeps from the call is all_yes, and the wait task with
\* its child if the task is still running
Take(c) ==
    /\ Returned(c)
    /\ cmd' = [cmd EXCEPT ![c] = NoCmd]
    /\ mode' = [mode EXCEPT ![c] = "None"]
    /\ pc' = [pc EXCEPT ![c] = "idle"]
    /\ proceed' = [proceed EXCEPT ![c] = Undecided]
    /\ input' = [input EXCEPT ![c] = NoAnswer]
    /\ answer' = [answer EXCEPT ![c] = NoAnswer]
    /\ prompts' = [prompts EXCEPT ![c] = 0]
    /\ reads' = [reads EXCEPT ![c] = 0]
    /\ spawns' = [spawns EXCEPT ![c] = 0]
    /\ mute' = [mute EXCEPT ![c] = FALSE]
    /\ both' = [both EXCEPT ![c] = FALSE]
    /\ child' = [child EXCEPT ![c] = Orphan(@, code[c])]
    /\ out' = [out EXCEPT ![c] = << >>]
    /\ live' = [live EXCEPT ![c] = << >>]
    /\ code' = [code EXCEPT ![c] = IF @.st = "running" THEN @ ELSE NoTask]
    /\ result' = [result EXCEPT ![c] = NoResult]
    /\ UNCHANGED <<envVars, all_yes, lockHolder, pipeOut, pipeErr, b>>

(***************************************************************************)
(* The specification of a run.                                             *)
(***************************************************************************)
\* a step of call c: of its dispatcher, its gate, its child, its tee loop
\* or its wait task
Step(c) ==
    \/ \E self \in SessionCmds, m \in Modes : Call(c, self, m)
    \/ ExecPrintCmd(c)
    \/ ExecMute(c)
    \/ ExecCheckAll(c)
    \/ ExecCheckErr(c)
    \/ ExecPrompt(c)
    \/ Lock(c)
    \/ \E line \in Lines : Answer(c, line)
    \/ Run(c)
    \/ \E fd \in {1, 2} : ChildWrite(c, fd)
    \/ ChildResume(c)
    \/ \E ec \in ExitCodes : ChildExit(c, ec)
    \/ ChildKill(c)
    \/ TeeRead(c)
    \/ TeeReadFail(c)
    \/ TeeWrite(c)
    \/ TeeWriteFail(c)
    \/ Wait(c)
    \/ WaitFail(c)
    \/ Join(c)

\* a result is handed to its caller in the poll that produced it, before
\* any other task runs
Next ==
    \/ \E c \in Calls : Take(c)
    \/ /\ \A d \in Calls : ~Returned(d)
       /\ \E c \in Calls : Step(c)

Spec == Init /\ [][Next]_vars

(***************************************************************************)
(* The rendering and the spawn specification of command values.            *)
(***************************************************************************)
\* longest keywords and longest option_flags of the command values below
MaxArgs == 1
MaxFlags == 2

SeqUpTo(S, n) == UNION { [1..k -> S] : k \in 0..n }

\* the command values Display and build are applied to
CmdValues ==
    { Cmd(s, p, k, f) :
        s \in BOOLEAN,
        p \in SeqUpTo({SUDO, DASH_S, APT}, MaxTok),
        k \in SeqUpTo({PKG, SUDO}, MaxArgs),
        f \in SeqUpTo({DASH_Y, DASH_S}, MaxFlags) }

InitCmd ==
    /\ root \in BOOLEAN
    /\ \E v \in CmdValues : cmd = [c \in Calls |-> v]
    /\ InitCalls

\* `format!("{}", cmd)`
Fmt(c) ==
    /\ shown' = [shown EXCEPT ![c] = Display(cmd[c], root)]
    /\ UNCHANGED <<root, cmd, mode, pc, lockHolder, built, gateVars,
                   sessVars, teeVars, result>>

\* `cmd.build()`
Build(c) ==
    /\ built' = [built EXCEPT ![c] = build(cmd[c], root)]
    /\ UNCHANGED <<root, cmd, mode, pc, lockHolder, shown, gateVars,
                   sessVars, teeVars, result>>

NextCmd == \E c \in Calls : Fmt(c) \/ Build(c)

SpecCmd == InitCmd /\ [][NextCmd]_vars


(***************************************************************************)
(* The run under the scheduling the runtime and the OS provide: a ready    *)
(* task is polled, a runnable child runs and ends.                         *)
(***************************************************************************)
Fairness ==
    \A c \in Calls :
        /\ WF_vars(Take(c))
        /\ WF_vars(ChildResume(c))
        /\ WF_vars(\E ec \in ExitCodes : ChildExit(c, ec))
        /\ WF_vars(TeeRead(c))
        /\ WF_vars(TeeWrite(c))
        /\ WF_vars(Wait(c) \/ WaitFail(c))
        /\ WF_vars(Join(c))

FairSpec == Spec /\ Fairness

(***************************************************************************)
(* Properties of the stream tee.                                           *)
(***************************************************************************)
\* the bytes the child of call c has written to its pipes, per stream
OutBytes(c) == [i \in 1..child[c].nOut |-> i]
ErrBytes(c) == [i \in 1..child[c].nErr |-> ErrBase + i]

IsErrByte(x) == x > ErrBase
IsOutByte(x) == x <= ErrBase

\* `s` holds every byte the child of call c wrote, each stream in order
HoldsAll(c, s) ==
    /\ SelectSeq(s, IsOutByte) = OutBytes(c)
    /\ SelectSeq(s, IsErrByte) = ErrBytes(c)

\* the tee loop of call c is between two iterations, or has ended with the
\* source exhausted
TeeBetweenChunks(c) == pc[c] \in {"tee_read", "join"}
TeeEnded(c) ==
    \/ pc[c] = "join"
    \/ pc[c] = "done" /\ result[c].kind = "Ok" /\ child[c].st # "none"
    \/ pc[c] = "done" /\ result[c] = Err(WaitFailed)

\* C1: with mute = false and no failed read or write, the live sink and
\* the capture sink hold the same bytes after every iteration of the tee
\* loop, and when the loop ends both hold all the chunks of the source in
\* the order of the source
C1_TeeSinksIdentical ==
    \A c \in Calls :
        ~mute[c] =>
            /\ TeeBetweenChunks(c) => live[c] = out[c]
            /\ TeeEnded(c) =>
                  /\ live[c] = out[c]
                  /\ HoldsAll(c, out[c])
                  /\ HoldsAll(c, live[c])

\* C1: an unmuted tee has ended after more than one chunk
C1_Witness ==
    \E c \in Calls :
        /\ ~mute[c]
        /\ pc[c] = "join"
        /\ Len(live[c]) > 1

\* C2: with mute = true (Mode::Mute) nothing is ever written to the live
\* sink, and when the loop ends the capture sink holds all the chunks of
\* the source in order
C2_MutedLiveUntouched ==
    \A c \in Calls :
        /\ mode[c] = "Mute" /\ pc[c] \notin {"exec", "done"} => mute[c]
        /\ mute[c] =>
              /\ live[c] = << >>
              /\ TeeEnded(c) => HoldsAll(c, out[c])
              /\ pc[c] = "done" /\ result[c].kind = "Ok" =>
                    result[c].out.contents = out[c]

\* C2: a muted tee has ended with more than one chunk captured
C2_Witness ==
    \E c \in Calls :
        /\ mute[c]
        /\ pc[c] = "done"
        /\ result[c].kind = "Ok"
        /\ Len(result[c].out.contents) > 1

(***************************************************************************)
(* Progress of a session that pipes both streams of its child.             *)
(***************************************************************************)
\* call c runs a session of exec_checkall whose child has been spawned
InCheckAll(c) == both[c] /\ pc[c] \in {"tee_read", "tee_write", "join"}

\* C3: a session that pipes both stdout and stderr (Mode::Mute,
\* Mode::CheckAll) always comes to return to its caller, whatever its
\* child writes to the two pipes before it ends: the pipes are drained while
\* the exit is awaited
C3_CheckAllReturns ==
    \A c \in Calls : InCheckAll(c) ~> Returned(c)

\* C3: a session has returned the outcome of a child that wrote more than
\* a pipe holds to stderr and wrote to stdout as well
C3_Witness ==
    \E c \in Calls :
        /\ both[c]
        /\ Returned(c)
        /\ result[c].kind = "Ok"
        /\ child[c].nErr > PipeCap
        /\ child[c].nOut > 0

(***************************************************************************)
(* Properties of the confirmation gate.                                    *)
(***************************************************************************)
\* call c leaves the gate in this step, having found *all_yes set
PassesSetGate(c) == pc[c] = "lock" /\ pc'[c] # "lock" /\ all_yes

\* call c starts to execute its command in this step: a build, then a spawn
\* unless the build panics
Executes(c) ==
    /\ pc'[c] \in {"tee_read", "done"}
    /\ \/ spawns'[c] = spawns[c] + 1
       \/ result'[c] = Panicked(BuildPanic)

C5_DeclineSkipsExecution ==
    \A c \in Calls :
        /\ IsNo(answer[c]) => proceed[c] = Decided(FALSE)
        /\ proceed[c] = Decided(FALSE) =>
              /\ IsNo(answer[c])
              /\ pc[c] \in {"run", "done"}
              /\ spawns[c] = 0
              /\ child[c] = NoChild
              /\ code[c] = NoTask
              /\ out[c] = << >> /\ live[c] = << >>
              /\ pc[c] = "done" => result[c] = Ok(OutputDefault)
        /\ mode[c] = "Prompt" /\ spawns[c] > 0 => proceed[c] = Decided(TRUE)

\* C5: a declined call has returned
C5_Witness ==
    \E c \in Calls :
        /\ pc[c] = "done"
        /\ IsNo(answer[c])
        /\ result[c] = Ok(OutputDefault)
        /\ spawns[c] = 0

\* call c is in the section of exec_prompt that reads always_yes, shows the
\* pending command, reads answers and writes always_yes
InGate(c) == pc[c] \in {"prompt", "run"}

\* C6: of the prompt-mode calls made concurrently, at most one is in the
\* gate at any time, and it holds the lock
C6_GateSerialized ==
    \A c, d \in Calls :
        /\ InGate(c) => lockHolder = c
        /\ InGate(c) /\ InGate(d) => c = d

\* C6: one call is at the prompt while another waits for the lock
C6_Witness ==
    \E c, d \in Calls :
        /\ c # d
        /\ pc[c] = "prompt"
        /\ pc[d] = "lock"

\* C7: always_yes starts false, never goes from true to false, and goes
\* from false to true only in a step in which a call accepts the answer
\* "a" or "all"
C7_AllYesMonotonic ==
    /\ all_yes = FALSE
    /\ [][ /\ all_yes => all_yes'
           /\ all_yes' # all_yes =>
                 \E c \in Calls :
                     /\ pc[c] = "prompt"
                     /\ pc'[c] = "run"
                     /\ IsAll(answer'[c])
         ]_vars

\* C7: always_yes is still set after a call has failed
C7_Witness ==
    \E c \in Calls :
        /\ all_yes
        /\ pc[c] = "done"
        /\ result[c].kind = "Err"

(***************************************************************************)
(* Properties of the dispatcher and of a session.                          *)
(***************************************************************************)
\* C8: a call in print-only mode, whatever its command, spawns no child,
\* never takes the lock or asks, and returns the outcome with empty
\* contents and exit code 0
C8_PrintOnlyInert ==
    \A c \in Calls :
        mode[c] = "PrintCmd" =>
            /\ pc[c] \in {"exec", "done"}
            /\ spawns[c] = 0
            /\ child[c] = NoChild
            /\ code[c] = NoTask
            /\ lockHolder # c
            /\ prompts[c] = 0 /\ reads[c] = 0
            /\ proceed[c] = Undecided /\ answer[c] = NoAnswer
            /\ pc[c] = "done" =>
                  result[c] = Ok([contents |-> << >>, code |-> Some(0)])

\* C8: a print-only call of an elevated command without program tokens has
\* returned
C8_Witness ==
    \E c \in Calls :
        /\ mode[c] = "PrintCmd"
        /\ pc[c] = "done"
        /\ result[c] = Ok(OutputDefault)
        /\ cmd[c].sudo
        /\ cmd[c].cmd = << >>

\* the spawn of call c was attempted and gave no child
SpawnHasFailed(c) == spawns[c] = 1 /\ child[c].st = "none"

\* C9: a call spawns at most once, and a call whose spawn fails returns the
\* error of the spawn at once: it gives no outcome, runs no tee and no
\* wait, and does not panic
C9_SpawnFailureReturned ==
    \A c \in Calls :
        /\ spawns[c] <= 1
        /\ SpawnHasFailed(c) =>
              /\ pc[c] = "done"
              /\ result[c] = Err(SpawnFailed)
              /\ code[c] = NoTask
              /\ out[c] = << >> /\ live[c] = << >>
              /\ b[c] = << >>
              /\ lockHolder # c
        /\ result[c] = Err(SpawnFailed) => SpawnHasFailed(c)

\* C9: a confirmed prompt-mode call has returned the error of its spawn
C9_Witness ==
    \E c \in Calls :
        /\ mode[c] = "Prompt"
        /\ proceed[c] = Decided(TRUE)
        /\ result[c] = Err(SpawnFailed)

(***************************************************************************)
(* Properties of the rendering and of the spawn specification.             *)
(***************************************************************************)
\* the command of call c has been rendered / built
Rendered(c) == shown[c] # NoAnswer
Specified(c) == built[c] # NoBuild

\* the rendered command carries the prefix "sudo -S "
ShownElevated(c) == IsPrefix(SudoPrefix, shown[c])

\* the spawn specification has the elevation helper as its program
BuiltElevated(c) == built[c].kind = "Exec" /\ built[c].program = SUDO

\* elevation is requested and needed
Wanted(c) == cmd[c].sudo /\ ~root

\* the tokens of the command value themselves render as an elevated
\* command / have the helper as their program
SpellsSudo(self) ==
    IsPrefix(SudoPrefix, join(self.cmd \o self.kws \o self.flags))
RunsSudo(self) == Len(self.cmd) > 0 /\ Head(self.cmd) = SUDO

\* C10 as stated: for every command value and privilege level the rendered
\* command is prefixed and the spawn specification has the helper as
\* program exactly when elevate is set and the process is not privileged,
\* and the two agree
C10_ElevationIffAsStated ==
    \A c \in Calls :
        /\ Rendered(c) => (ShownElevated(c) <=> Wanted(c))
        /\ Specified(c) => (BuiltElevated(c) <=> Wanted(c))
        /\ Rendered(c) /\ Specified(c) =>
              (ShownElevated(c) <=> BuiltElevated(c))

\* C10: the rendered command is prefixed and the spawn specification has
\* the helper as program whenever elevate is set and the process is not
\* privileged; otherwise the rendering starts with "sudo -S " only if the
\* tokens of the command value themselves render so, and the program is
\* the helper only if it is the first program token
C10_ElevationIff ==
    \A c \in Calls :
        /\ Rendered(c) =>
              /\ Wanted(c) => ShownElevated(c)
              /\ ShownElevated(c) => Wanted(c) \/ SpellsSudo(cmd[c])
        /\ Specified(c) =>
              /\ Wanted(c) => BuiltElevated(c)
              /\ BuiltElevated(c) => Wanted(c) \/ RunsSudo(cmd[c])
        /\ (Rendered(c) /\ Specified(c)
               /\ ~SpellsSudo(cmd[c]) /\ ~RunsSudo(cmd[c])) =>
              (ShownElevated(c) <=> BuiltElevated(c))

\* C10: a command with elevate set has been rendered and built by a
\* privileged process, and neither is elevated
C10_Witness ==
    \E c \in Calls :
        /\ cmd[c].sudo /\ root
        /\ Rendered(c) /\ ~ShownElevated(c)
        /\ Specified(c) /\ ~BuiltElevated(c)
        /\ built[c].kind = "Exec"

\* the program and the arguments of the spawn specification of call c, as
\* one sequence of tokens
BuiltTokens(c) == <<built[c].program>> \o built[c].args

\* what the elevation puts in front of the tokens of the command value
Lead(c) == IF Wanted(c) THEN <<SUDO, DASH_S>> ELSE << >>

\* the n tokens of s that follow its first `from` tokens
Slice(s, from, n) == SubSeq(s, from + 1, from + n)

\* C11: the spawn specification is made of the elevation helper and "-S"
\* when elevation is needed, then the program tokens, then all the option
\* flags, then all the keywords, each group in its own order and nothing
\* else: no token is dropped or duplicated; without elevation the program
\* is the first program token
C11_FlagsBeforeKeywords ==
    \A c \in Calls :
        (Specified(c) /\ built[c].kind = "Exec") =>
            LET self == cmd[c]
                all == BuiltTokens(c)
                n0 == Len(Lead(c))
                n1 == Len(self.cmd)
                n2 == Len(self.flags)
                n3 == Len(self.kws)
            IN  /\ Len(all) = n0 + n1 + n2 + n3
                /\ Slice(all, 0, n0) = Lead(c)
                /\ Slice(all, n0, n1) = self.cmd
                /\ Slice(all, n0 + n1, n2) = self.flags
                /\ Slice(all, n0 + n1 + n2, n3) = self.kws
                /\ Wanted(c) =>
                      built[c].program = SUDO /\ Head(built[c].args) = DASH_S
                /\ ~Wanted(c) => built[c].program = Head(self.cmd)

\* C11: a command of two program tokens, two different flags and a keyword
\* has been built without elevation
C11_Witness ==
    \E c \in Calls :
        /\ Specified(c)
        /\ built[c].kind = "Exec"
        /\ ~Wanted(c)
        /\ Len(cmd[c].cmd) = 2
        /\ Len(cmd[c].flags) = 2
        /\ cmd[c].flags[1] # cmd[c].flags[2]
        /\ Len(cmd[c].kws) = 1
        /\ Len(built[c].args) = 4

(***************************************************************************)
(* Properties of a session: what it is given, what it captures and what    *)
(* it returns.                                                             *)
(***************************************************************************)
\* call c enters exec_checkall or exec_checkerr in this step: from the
\* dispatcher, or from the gate with the decision to proceed
StartsSession(c) ==
    \/ /\ pc[c] = "exec"
       /\ mode[c] \in {"Mute", "CheckAll", "CheckErr"}
       /\ pc'[c] # "exec"
    \/ /\ pc[c] = "run"
       /\ proceed[c] = Decided(TRUE)
       /\ pc'[c] # "run"

\* C12: a session given a command value without program tokens, whether or
\* not elevation is needed, returns the error InvalidCommand to its caller
\* and neither attempts a spawn nor starts a child
C12_EmptyCommandRejected ==
    [][ \A c \in Calls :
            (StartsSession(c) /\ Len(cmd[c].cmd) = 0) =>
                /\ pc'[c] = "done"
                /\ result'[c] = Err("InvalidCommand")
                /\ spawns'[c] = 0
                /\ child'[c] = NoChild
      ]_vars

\* call c is in a session whose child has been spawned
InSession(c) == pc[c] \in {"tee_read", "tee_write", "join"}

\* every byte of s comes from stderr
OnlyErrBytes(s) == \A i \in 1..Len(s) : IsErrByte(s[i])

\* C13: in Mode::Mute and Mode::CheckAll both streams of the child are
\* piped and the capture ends holding all the bytes of both; in
\* Mode::CheckErr and Mode::Prompt stdout is not piped, the capture never
\* holds a stdout byte and ends holding the stderr bytes; in Mode::Mute
\* nothing is echoed live, and in the other three modes the live sink holds
\* what the capture holds after every chunk
C13_ModeTable ==
    \A c \in Calls :
        /\ (InSession(c) /\ mode[c] \in {"Mute", "CheckAll"}) =>
              /\ both[c]
              /\ mute[c] <=> mode[c] = "Mute"
              /\ TeeEnded(c) => HoldsAll(c, out[c])
        /\ (InSession(c) /\ mode[c] \in {"CheckErr", "Prompt"}) =>
              /\ ~both[c]
              /\ ~mute[c]
              /\ pipeOut[c] = << >>
              /\ TeeEnded(c) => out[c] = ErrBytes(c)
        /\ mode[c] \in {"CheckErr", "Prompt"} =>
              /\ OnlyErrBytes(out[c]) /\ OnlyErrBytes(live[c])
              /\ OnlyErrBytes(result[c].out.contents)
        /\ mode[c] = "Mute" => live[c] = << >>
        /\ (mode[c] \in {"CheckAll", "CheckErr", "Prompt"}
               /\ TeeBetweenChunks(c)) => live[c] = out[c]
        /\ (pc[c] = "done" /\ result[c].kind = "Ok") =>
              result[c].out.contents = out[c]

\* C13: a session of Mode::CheckErr has ended with more than one chunk of
\* stderr captured and echoed
C13_Witness ==
    \E c \in Calls :
        /\ mode[c] = "CheckErr"
        /\ pc[c] = "done"
        /\ result[c].kind = "Ok"
        /\ Len(result[c].out.contents) > 1
        /\ live[c] = result[c].out.contents

\* call c has returned an outcome
ReturnedOutcome(c) == Returned(c) /\ result[c].kind = "Ok"

\* the child of call c was killed by a signal / exited with code n
Signalled(c) == child[c].st = "exited" /\ child[c].status = None
ExitedWith(c, n) == child[c].st = "exited" /\ child[c].status = Some(n)

\* the returned exit code is that of the way the child of call c ended
CodeReflectsChild(c) ==
    /\ child[c].st = "exited"
    /\ \A n \in ExitCodes :
          result[c].out.code = Some(n) <=> ExitedWith(c, n)
    /\ result[c].out.code = None <=> Signalled(c)
    /\ result[c].out.code \in {None} \cup {Some(n) : n \in ExitCodes}

\* call c spawned nothing: it is print-only or a declined prompt
NoOp(c) ==
    \/ mode[c] = "PrintCmd"
    \/ mode[c] = "Prompt" /\ proceed[c] = Decided(FALSE)

\* C14 as stated: the exit code of a returned outcome is Some(code) exactly
\* when the child exited with that code and None exactly when a signal
\* killed it, and the outcome of empty bytes and Some(0) is returned only
\* by calls that spawned nothing
C14_ExitCodeAsStated ==
    \A c \in Calls :
        ReturnedOutcome(c) =>
            /\ spawns[c] > 0 => CodeReflectsChild(c)
            /\ spawns[c] = 0 => result[c].out = OutputDefault /\ NoOp(c)
            /\ result[c].out = OutputDefault => spawns[c] = 0

\* C14: the exit code of a returned outcome is Some(code) exactly when the
\* child exited with that code and None exactly when a signal killed it; an
\* outcome returned without a spawn is the default one, and is returned
\* by print-only and declined prompt calls only; a call that spawned
\* returns empty bytes and Some(0) only if its child exited with code 0 and
\* nothing was captured from it
C14_ExitCode ==
    \A c \in Calls :
        ReturnedOutcome(c) =>
            /\ spawns[c] > 0 => CodeReflectsChild(c)
            /\ spawns[c] = 0 => result[c].out = OutputDefault /\ NoOp(c)
            /\ NoOp(c) => spawns[c] = 0
            /\ (result[c].out = OutputDefault /\ spawns[c] > 0) =>
                  ExitedWith(c, 0) /\ out[c] = << >>

\* C14: the outcome of a child killed by a signal after it wrote has been
\* returned
C14_Witness ==
    \E c \in Calls :
        /\ ReturnedOutcome(c)
        /\ Signalled(c)
        /\ result[c].out.code = None
        /\ Len(result[c].out.contents) > 0

(***************************************************************************)
(* The answers of the confirmation gate.                                   *)
(***************************************************************************)
\* the text of a line of input, without its terminator "\n" or "\r\n"
Content(line) ==
    LET n == Len(line)
    IN  IF n >= 2 /\ line[n - 1] = "\r" /\ line[n] = "\n"
        THEN SubSeq(line, 1, n - 2)
        ELSE IF n >= 1 /\ line[n] = "\n" THEN SubSeq(line, 1, n - 1)
        ELSE line

\* call c is at the prompt and reads a line in this step
ReadsLine(c) == pc[c] = "prompt" /\ reads'[c] = reads[c] + 1

\* C15: with always_yes false, a line read at the prompt is compared
\* without its terminator and without regard to case: the empty line, "y"
\* and "yes" give proceed and leave always_yes as it is; "a" and "all"
\* give proceed and set always_yes; "n" and "no" give do-not-proceed and
\* leave always_yes as it is; any other line gives no decision, leaves
\* always_yes as it is and is followed by another prompt
C15_AnswerMapping ==
    [][ \A c \in Calls :
            ReadsLine(c) =>
                LET a == to_lowercase(Content(input'[c]))
                IN  /\ ~all_yes
                    /\ a \in { << >>, <<"y">>, <<"y", "e", "s">> } =>
                          /\ pc'[c] = "run"
                          /\ proceed'[c] = Decided(TRUE)
                          /\ all_yes' = all_yes
                    /\ a \in { <<"a">>, <<"a", "l", "l">> } =>
                          /\ pc'[c] = "run"
                          /\ proceed'[c] = Decided(TRUE)
                          /\ all_yes' = TRUE
                    /\ a \in { <<"n">>, <<"n", "o">> } =>
                          /\ pc'[c] = "run"
                          /\ proceed'[c] = Decided(FALSE)
                          /\ all_yes' = all_yes
                    /\ a \notin { << >>, <<"y">>, <<"y", "e", "s">>, <<"a">>,
                                  <<"a", "l", "l">>, <<"n">>, <<"n", "o">> } =>
                          /\ pc'[c] = "prompt"
                          /\ proceed'[c] = Undecided
                          /\ all_yes' = all_yes
                          /\ prompts'[c] = prompts[c] + 1
      ]_vars

\* C15: a call has been answered "AlL" at its second prompt, after a line
\* that was not recognised
C15_Witness ==
    \E c \in Calls :
        /\ pc[c] = "run"
        /\ prompts[c] = 2
        /\ reads[c] = 2
        /\ input[c] = <<"A", "l", "L", "\n">>
        /\ proceed[c] = Decided(TRUE)
        /\ all_yes

(***************************************************************************)
(* The join of the tee loop and the wait task, and the failures of the     *)
(* tee loop.                                                               *)
(***************************************************************************)
\* the session of call c returns its outcome in this step
ReturnsOutcome(c) ==
    /\ spawns[c] > 0
    /\ result[c].kind = "None"
    /\ result'[c].kind = "Ok"

\* the tee loop of call c has read the end of its source: the child has
\* closed its ends of the pipes and every chunk has been read and written
TeeAtEnd(c) ==
    /\ pc[c] = "join"
    /\ child[c].st = "exited"
    /\ pipeOut[c] = << >> /\ pipeErr[c] = << >>
    /\ b[c] = << >>

\* the wait task of call c has yielded the exit status
WaitYielded(c) == code[c].st = "ok" /\ code[c].v = child[c].status

\* C16: a session returns its outcome only in a step taken when both the
\* tee loop has reached the end of its source and the wait task has
\* yielded the exit status; a session whose tee loop or wait task is still
\* running has returned nothing
C16_OutcomeAtJoin ==
    [][ \A c \in Calls :
            /\ ReturnsOutcome(c) =>
                  /\ TeeAtEnd(c)
                  /\ WaitYielded(c)
                  /\ result'[c] = Ok(Output(out[c], child[c].status))
            /\ (pc[c] \in {"tee_read", "tee_write"}
                   \/ (pc[c] = "join" /\ code[c].st = "running")) =>
                  result[c] = NoResult
            /\ pc[c] = "join" => TeeAtEnd(c)
      ]_vars

\* C16: the wait task has yielded the exit status while the tee loop has
\* still a chunk to read, and nothing has been returned
C16_Witness ==
    \E c \in Calls :
        /\ pc[c] = "tee_read"
        /\ WaitYielded(c)
        /\ pipeErr[c] # << >>
        /\ result[c] = NoResult

\* the tee loop of call c fails in this step: the session returns from
\* inside the loop
TeeFails(c) == pc[c] \in {"tee_read", "tee_write"} /\ pc'[c] = "done"

\* the session of call c has returned the failure of its tee loop
TeeFailed(c) == result[c] = Err(IoFailure)

\* the wait task of call c and its child are gone: the child is reaped
Reaped(c) == code[c] = NoTask /\ child[c] = NoChild

\* C17: a failed read or write in the tee loop makes the session return
\* IoFailure in that step, with none of the bytes captured so far and with
\* no chunk read afterwards; the step leaves the wait task and the child
\* as they are; the task, once detached, never hands its exit status to
\* anyone, and it ends with the child reaped
C17_TeeFailureAborts ==
    /\ [][ \A c \in Calls :
              /\ TeeFails(c) =>
                    /\ result'[c] = Err(IoFailure)
                    /\ result'[c].out.contents = << >>
                    /\ code'[c] = code[c]
                    /\ child'[c] = child[c]
                    /\ pipeOut'[c] = << >> /\ pipeErr'[c] = << >>
                    /\ b'[c] = << >>
              /\ TeeFailed(c) =>
                    /\ pc'[c] \in {"done", "idle"}
                    /\ b'[c] = << >>
                    /\ pc'[c] = "idle" /\ code[c].st = "running" =>
                          code'[c].st = "running" /\ child'[c].st = child[c].st
              /\ (Detached(c) /\ code[c].st = "running") =>
                    \/ code'[c] = code[c]
                    \/ Reaped(c)'
         ]_vars
    /\ \A c \in Calls :
          (TeeFailed(c) /\ code[c].st = "running") ~> Reaped(c)

\* C17: a session has returned IoFailure with bytes captured and its wait
\* task still running
C17_Witness ==
    \E c \in Calls :
        /\ TeeFailed(c)
        /\ out[c] # << >>
        /\ code[c].st = "running"
        /\ child[c].st = "running"

(***************************************************************************)
(* The merge of the two pipes, and the two writes of a chunk.              *)
(***************************************************************************)
\* the bytes of stdout / of stderr in s, in the order they have in s
OutPart(s) == SelectSeq(s, IsOutByte)
ErrPart(s) == SelectSeq(s, IsErrByte)

\* what the session of call c has taken from the merged stream so far: the
\* chunks written to the capture and the chunk in hand
Taken(c) == out[c] \o b[c]

\* the tee loop of call c completes the writes of its chunk in this step
WritesChunk(c) == pc[c] = "tee_write" /\ pc'[c] = "tee_read"

\* C18: while a session captures both streams, the bytes it has taken and
\* the bytes still in the pipes are, for stdout and for stderr alike, the
\* bytes the child delivered on that stream, each once and in the order of
\* delivery; each chunk is appended whole to the capture in the step that
\* follows its read, so chunks are captured in the order they were taken
C18_OrderPreservingMerge ==
    /\ [](\A c \in Calls :
             (InSession(c) /\ both[c]) =>
                 /\ OutPart(Taken(c)) \o pipeOut[c] = OutBytes(c)
                 /\ ErrPart(Taken(c)) \o pipeErr[c] = ErrBytes(c)
                 /\ Len(Taken(c)) =
                       Len(OutPart(Taken(c))) + Len(ErrPart(Taken(c)))
                 /\ TeeEnded(c) => HoldsAll(c, out[c]))
    /\ [][ \A c \in Calls :
              (both[c] /\ WritesChunk(c)) =>
                  /\ b[c] # << >>
                  /\ out'[c] = out[c] \o b[c]
                  /\ b'[c] = << >>
         ]_vars

\* C18: a session has captured a chunk of stderr, then one of stdout, then
\* another of stderr
C18_Witness ==
    \E c \in Calls :
        /\ both[c]
        /\ pc[c] = "join"
        /\ Len(out[c]) = 3
        /\ IsErrByte(out[c][1])
        /\ IsOutByte(out[c][2])
        /\ IsErrByte(out[c][3])

\* the unmuted tee loop of call c ends the writes of its chunk in this
\* step, by their completion or by a failure
EndsWrites(c) == ~mute[c] /\ pc[c] = "tee_write" /\ pc'[c] # "tee_write"

\* both writes of the chunk complete / neither completes
BothComplete(c) == live'[c] = live[c] \o b[c] /\ out'[c] = out[c] \o b[c]
NeitherCompletes(c) == live'[c] # live[c] \o b[c] /\ out'[c] = out[c]

\* s is t followed by fewer bytes of chunk than chunk has
PartOf(s, t, chunk) ==
    \E k \in 0..(Len(chunk) - 1) : s = t \o SubSeq(chunk, 1, k)

\* the tee loop of call c takes a chunk from its source in this step
TakesChunk(c) == b'[c] # b[c] /\ b'[c] # << >>

\* a chunk is taken only by a tee loop that has no chunk in hand
ReadsAfterWrites(c) ==
    TakesChunk(c) => pc[c] = "tee_read" /\ b[c] = << >>

\* C19 as stated: the two writes of a chunk of an unmuted tee either both
\* complete or both fail, and no chunk is taken from the source until the
\* writes of the chunk before it have finished
C19_ChunkAtomicAsStated ==
    [][ \A c \in Calls :
            /\ EndsWrites(c) => BothComplete(c) \/ NeitherCompletes(c)
            /\ ReadsAfterWrites(c)
      ]_vars

\* C19: the two writes of a chunk of an unmuted tee both complete before
\* the next chunk is taken from the source, or the write to the live sink
\* fails, and then the tee takes no other chunk and the session returns
\* IoFailure with the chunk written in part or not at all to the live
\* sink and written whole or not at all to the capture
C19_ChunkWrites ==
    [][ \A c \in Calls :
            /\ EndsWrites(c) =>
                  \/ /\ pc'[c] = "tee_read"
                     /\ BothComplete(c)
                  \/ /\ pc'[c] = "done"
                     /\ result'[c] = Err(IoFailure)
                     /\ PartOf(live'[c], live[c], b[c])
                     /\ out'[c] \in {out[c], out[c] \o b[c]}
            /\ ReadsAfterWrites(c)
            /\ TeeFailed(c) => b'[c] = << >>
      ]_vars

\* C19: an unmuted tee has failed with its last chunk in the capture and
\* not in the live sink
C19_Witness ==
    \E c \in Calls :
        /\ ~mute[c]
        /\ TeeFailed(c)
        /\ Len(out[c]) > Len(live[c])
        /\ Len(live[c]) > 0

(***************************************************************************)
(* The extent of the lock of the confirmation gate.                        *)
(***************************************************************************)
\* call c is in exec_prompt past the acquisition of ALL_YES: in the gate or
\* in the session of its child
InPrompt(c) ==
    /\ mode[c] = "Prompt"
    /\ pc[c] \in {"prompt", "run", "tee_read", "tee_write", "join"}

\* a child spawned by a call of exec_prompt is running
PromptChildRuns(c) == child[c].st = "running" /\ child[c].prompted

\* the lock is held by the calls that are in exec_prompt past its
\* acquisition, until they return, and by no other
LockSpansCall ==
    \A c \in Calls :
        /\ InPrompt(c) => lockHolder = c
        /\ lockHolder = c => InPrompt(c)
        /\ (Returned(c) \/ pc[c] = "idle") => lockHolder # c

\* a caller reads always_yes or is at its prompt only while no other call
\* of exec_prompt is in its gate or in the session of its child
OneInPrompt ==
    \A c, d \in Calls : (InPrompt(c) /\ InPrompt(d)) => c = d

\* C20 as stated: a call holds the lock from before it reads always_yes
\* until it returns, whatever its outcome; a second caller is kept from the
\* gate until then; and two children of prompt-mode calls never run at the
\* same time
C20_LockSpansCallAsStated ==
    /\ LockSpansCall
    /\ OneInPrompt
    /\ \A c, d \in Calls :
          (PromptChildRuns(c) /\ PromptChildRuns(d)) => c = d

\* C20: a call holds the lock from before it reads always_yes until it
\* returns, whatever its outcome; a second caller is kept from the gate
\* until then; of the children of prompt-mode calls running at the same
\* time, at most one is the child of a call still in its session, the
\* others being left behind by sessions that returned with their child
\* still running
C20_LockSpansCall ==
    /\ LockSpansCall
    /\ OneInPrompt
    /\ \A c, d \in Calls :
          (PromptChildRuns(c) /\ PromptChildRuns(d) /\ c # d) =>
              Detached(c) \/ Detached(d)
    /\ \A c \in Calls :
          (PromptChildRuns(c) /\ ~Detached(c) /\ ~Returned(c)) =>
              lockHolder = c

\* C20: the child of a prompt-mode call is running while a second caller
\* waits for the lock
C20_Witness ==
    \E c, d \in Calls :
        /\ c # d
        /\ InPrompt(c)
        /\ PromptChildRuns(c)
        /\ pc[c] = "tee_read"
        /\ pc[d] = "lock"
        /\ mode[d] = "Prompt"


(***************************************************************************)
(* End of input at the confirmation prompt.                                *)
(***************************************************************************)
\* what read_line leaves in `answer` when standard input is exhausted: it
\* returns Ok(0) and appends nothing
EndOfInput == << >>

\* call c is at the prompt and its read_line meets the end of input in this
\* step
ReadsEndOfInput(c) == ReadsLine(c) /\ input'[c] = EndOfInput

\* call c has left prompt on the end of input and is at the rest of
\* exec_prompt
AfterEndOfInput(c) == pc[c] = "run" /\ input[c] = EndOfInput

\* call c returns in this step without having tried to spawn
Declines(c) == pc'[c] = "done" /\ result'[c] = Ok(OutputDefault)

\* C21: with always_yes false, a read at the prompt that meets the end of
\* input ends the gate on that read: the answer is the empty one, the
\* decision is to proceed, no further prompt is printed and always_yes
\* stays false; the next step of the call then executes the command: it
\* does not decline, and it attempts the spawn of every command that build
\* accepts, which includes every command with a program token
C21_EndOfInputProceeds ==
    [][ \A c \in Calls :
            /\ ReadsEndOfInput(c) =>
                  /\ ~all_yes
                  /\ pc'[c] = "run"
                  /\ answer'[c] = << >>
                  /\ proceed'[c] = Decided(TRUE)
                  /\ prompts'[c] = prompts[c]
                  /\ all_yes' = FALSE
            /\ AfterEndOfInput(c) =>
                  /\ proceed[c] = Decided(TRUE)
                  /\ ~all_yes
                  /\ all_yes' = FALSE
                  /\ pc'[c] \in {"run", "tee_read", "done"}
                  /\ pc'[c] # "run" =>
                        /\ Executes(c)
                        /\ ~Declines(c)
                        /\ cmd[c].cmd # << >> =>
                              build(cmd[c], root).kind = "Exec"
                        /\ build(cmd[c], root).kind = "Exec" =>
                              spawns'[c] = spawns[c] + 1
      ]_vars

\* C21: the first read of a call for a command with a program token has met
\* the end of input, and the call is about to execute with always_yes false
C21_Witness ==
    \E c \in Calls :
        /\ AfterEndOfInput(c)
        /\ reads[c] = 1
        /\ prompts[c] = 1
        /\ proceed[c] = Decided(TRUE)
        /\ ~all_yes
        /\ cmd[c].cmd # << >>

=============================================================================
